---- MODULE Spec2Model ----
(***************************************************************************)
(* State-machine model of rust-engine/src/main.rs: the startup sequence    *)
(* of `main` (optional Redis wiring, one GraphQL request to the pool-data  *)
(* API) followed by the heartbeat publishing loop.                         *)
(*                                                                         *)
(* The environment (the process environment variables, the answers of the  *)
(* two upstream services, the time each answer takes) is drawn from small  *)
(* sets.  An upstream call is split in two steps, the call and its return: *)
(* the `.await` on it is the only place where `main` is suspended.  The    *)
(* outcome of the call in flight is fixed when the call is made (`reply`);  *)
(* outcome "hang" is an upstream that never answers: neither              *)
(* reqwest::Client::new() nor the Redis connection manager is given a      *)
(* timeout, so no step of `main` is enabled while such a call is pending.  *)
(***************************************************************************)
EXTENDS Integers, Sequences, FiniteSets

\* ---------------------------------------------------------------- bounds
\* The heartbeat loop is unbounded in the program; the model stops starting
\* new iterations after MaxCycles of them.
MaxCycles == 3
\* A publish call that answers takes k * LatencyStep ms, k in 0..MaxLatencySteps.
LatencyStep == 600
MaxLatencySteps == 2
\* The claims' configured minimum liquidity ranges over 0..MaxMinLiquidity.
MaxMinLiquidity == 2

\* ------------------------------------------------------- program constants
\* tokio::time::sleep(Duration::from_millis(800))
SleepMs == 800
\* "pnl": 12.34, in hundredths
PnlHundredths == 1234

DefaultChannel == "arb:realtime"

\* ------------------------------------------------------------ environment
\* REDIS_URL: unset, not a URL, a URL nobody listens on, a URL of a server.
RedisUrls == {"unset", "invalid", "refused", "ok"}
\* REDIS_CHANNEL: unset or a name.
ChannelEnvs == {"unset", "ops:signals"}
\* Response status of the pool-data API.
HttpStatuses == {200, 404, 500}
\* Body of the response as read by resp.text(); "" when the read fails.
Bodies == {"", "pools-json"}
Replies == {"ok", "err", "hang"}
Latencies == {k * LatencyStep : k \in 0..MaxLatencySteps}

VARIABLES
  pc,             \* position of main
  redis_url,      \* env REDIS_URL
  channel_env,    \* env REDIS_CHANNEL
  redis_channel,  \* let redis_channel
  redis_mgr,      \* let mut redis_mgr: "None" | "Some"
  reply,          \* outcome of the upstream call in flight, "none" when idle
  latency,        \* time the call in flight takes to answer
  status,         \* let status = resp.status(); 0 before the response
  text,           \* let text = resp.text()...
  lastFetch,      \* result of send().await: "none" | "err" | "ok"
  payload,        \* let payload (the JSON object whose text is published)
  now,            \* wall clock, ms since the loop was entered
  fetchCalls,     \* requests sent to the pool-data API
  publishCalls,   \* conn.publish calls made
  inFlight,       \* conn.publish calls made and not yet returned
  cycles,         \* loop iterations started
  cycleStart,     \* time the current iteration started
  prevCycleStart, \* time the iteration before it started
  workMs,         \* time the last returned publish call took
  lastPublish,    \* result of the last returned publish call
  sent,           \* messages delivered to Redis, in order
  entered,        \* the loop has been entered
  stopSignalled,  \* a termination signal was delivered
  haltedAt        \* position of main when the signal ended the process

vars == <<pc, redis_url, channel_env, redis_channel, redis_mgr, reply, latency,
          status, text, lastFetch, payload, now, fetchCalls, publishCalls, inFlight,
          cycles, cycleStart, prevCycleStart, workMs, lastPublish, sent,
          entered, stopSignalled, haltedAt>>

NoPayload == [ts |-> -1, pnl |-> 0, opportunities |-> <<>>,
              engine |-> [status |-> "none"]]

Init ==
  /\ pc = "start"
  /\ redis_url \in RedisUrls
  /\ channel_env \in ChannelEnvs
  /\ redis_channel = "unread"
  /\ redis_mgr = "None"
  /\ reply = "none"
  /\ latency = 0
  /\ status = 0
  /\ text = ""
  /\ lastFetch = "none"
  /\ payload = NoPayload
  /\ now = 0
  /\ fetchCalls = 0
  /\ publishCalls = 0
  /\ inFlight = 0
  /\ cycles = 0
  /\ cycleStart = 0
  /\ prevCycleStart = 0
  /\ workMs = 0
  /\ lastPublish = "none"
  /\ sent = <<>>
  /\ entered = FALSE
  /\ stopSignalled = FALSE
  /\ haltedAt = "none"

\* env::var("REDIS_CHANNEL").unwrap_or_else(|_| "arb:realtime".to_string())
ChannelOf(e) == IF e = "unset" THEN DefaultChannel ELSE e

\* A connection manager handed out without the connection having been
\* made: Some for every REDIS_URL that parses.
ConnectResultLazy(url) == IF url \in {"ok", "refused"} THEN "Some" ELSE "None"

\* redis::Client::open(url) and client.get_tokio_connection_manager().await:
\* a manager only when REDIS_URL is set, parses and the server is reached.
ConnectResult(url) == IF url = "ok" THEN "Some" ELSE "None"

\* Optional Redis wiring: no outcome of it is an error of main.
RedisWiring ==
  /\ pc = "start"
  /\ redis_channel' = ChannelOf(channel_env)
  /\ redis_mgr' = ConnectResult(redis_url)
  /\ pc' = "fetch"
  /\ UNCHANGED <<redis_url, channel_env, reply, latency, status, text, lastFetch, payload,
                 now, fetchCalls, publishCalls, inFlight, cycles, cycleStart,
                 prevCycleStart, workMs, lastPublish, sent, entered,
                 stopSignalled, haltedAt>>

\* client.post(&subgraph).json(&body).send(): the request goes out.
FetchSend ==
  /\ pc = "fetch"
  /\ fetchCalls' = fetchCalls + 1
  /\ reply' \in Replies
  /\ pc' = "fetch_wait"
  /\ UNCHANGED <<redis_url, channel_env, redis_channel, redis_mgr, latency,
                 status, text, lastFetch, payload, now, publishCalls, inFlight, cycles,
                 cycleStart, prevCycleStart, workMs, lastPublish, sent, entered,
                 stopSignalled, haltedAt>>

\* .send().await? on a transport failure: the error is returned from main.
FetchFailed ==
  /\ pc = "fetch_wait"
  /\ reply = "err"
  /\ reply' = "none"
  /\ lastFetch' = "err"
  /\ pc' = "failed"
  /\ UNCHANGED <<redis_url, channel_env, redis_channel, redis_mgr, latency,
                 status, text, payload, now, fetchCalls, publishCalls, inFlight,
                 cycles, cycleStart, prevCycleStart, workMs, lastPublish, sent,
                 entered, stopSignalled, haltedAt>>

\* A response arrived, whatever its status: status and text are logged.
FetchAnswered ==
  /\ pc = "fetch_wait"
  /\ reply = "ok"
  /\ reply' = "none"
  /\ status' \in HttpStatuses
  /\ text' \in Bodies
  /\ lastFetch' = "ok"
  /\ pc' = "after_fetch"
  /\ UNCHANGED <<redis_url, channel_env, redis_channel, redis_mgr, latency,
                 payload, now, fetchCalls, publishCalls, inFlight, cycles,
                 cycleStart, prevCycleStart, workMs, lastPublish, sent, entered,
                 stopSignalled, haltedAt>>

\* if let Some(mut conn) = redis_mgr { loop { ... } }
EnterLoop ==
  /\ pc = "after_fetch"
  /\ redis_mgr = "Some"
  /\ entered' = TRUE
  /\ pc' = "loop_top"
  /\ UNCHANGED <<redis_url, channel_env, redis_channel, redis_mgr, reply,
                 latency, status, text, lastFetch, payload, now, fetchCalls, publishCalls,
                 inFlight, cycles, cycleStart, prevCycleStart, workMs,
                 lastPublish, sent, stopSignalled, haltedAt>>

\* Ok(()) when there is no connection manager.
ReturnOk ==
  /\ pc = "after_fetch"
  /\ redis_mgr = "None"
  /\ pc' = "done"
  /\ UNCHANGED <<redis_url, channel_env, redis_channel, redis_mgr, reply,
                 latency, status, text, lastFetch, payload, now, fetchCalls, publishCalls,
                 inFlight, cycles, cycleStart, prevCycleStart, workMs,
                 lastPublish, sent, entered, stopSignalled, haltedAt>>

\* A payload that lists an unfiltered opportunity (all seven fields of
\* struct Opportunity), with a negative estimated profit and no liquidity.
HeartbeatUnfiltered(t) ==
  [ts |-> t, pnl |-> PnlHundredths,
   opportunities |-> << [pair |-> "ETH/USDC", spread_bps |-> 50,
                         est_gas_usd |-> 8, est_profit_usd |-> -3,
                         liquidity_usd |-> 0, confidence |-> 1,
                         route |-> "poolA>poolB"] >>,
   engine |-> [status |-> "running"]]

\* json!({"ts": ..., "pnl": 12.34, "opportunities": [], "engine": {"status": "running"}})
Heartbeat(t) == [ts |-> t, pnl |-> PnlHundredths, opportunities |-> <<>>,
                 engine |-> [status |-> "running"]]

\* The publish call handed to a spawned task instead of awaited: the loop
\* goes on to its sleep while the call is still in flight.
LoopPublishSpawned ==
  /\ pc = "loop_top"
  /\ cycles < MaxCycles
  /\ cycles' = cycles + 1
  /\ prevCycleStart' = cycleStart
  /\ cycleStart' = now
  /\ payload' = Heartbeat(now)
  /\ publishCalls' = publishCalls + 1
  /\ inFlight' = inFlight + 1
  /\ \E r \in Replies :
       /\ reply' = r
       /\ latency' \in (IF r = "hang" THEN {0} ELSE Latencies)
  /\ pc' = "sleep"
  /\ UNCHANGED <<redis_url, channel_env, redis_channel, redis_mgr, status, text,
                 lastFetch, now, fetchCalls, workMs, lastPublish, sent, entered,
                 stopSignalled, haltedAt>>

\* Top of the loop body: build the payload and call conn.publish.
LoopPublish ==
  /\ pc = "loop_top"
  /\ cycles < MaxCycles
  /\ cycles' = cycles + 1
  /\ prevCycleStart' = cycleStart
  /\ cycleStart' = now
  /\ payload' = Heartbeat(now)
  /\ publishCalls' = publishCalls + 1
  /\ inFlight' = inFlight + 1
  /\ \E r \in Replies :
       /\ reply' = r
       /\ latency' \in (IF r = "hang" THEN {0} ELSE Latencies)
  /\ pc' = "publish_wait"
  /\ UNCHANGED <<redis_url, channel_env, redis_channel, redis_mgr, status, text, lastFetch,
                 now, fetchCalls, workMs, lastPublish, sent, entered,
                 stopSignalled, haltedAt>>

\* conn.publish(...).await? in place of unwrap_or(()): an Err leaves main.
LoopPublishReturnPropagate ==
  /\ pc = "publish_wait"
  /\ reply \in {"ok", "err"}
  /\ now' = now + latency
  /\ workMs' = latency
  /\ lastPublish' = reply
  /\ sent' = IF reply = "ok"
             THEN Append(sent, [channel |-> redis_channel, message |-> payload])
             ELSE sent
  /\ inFlight' = inFlight - 1
  /\ reply' = "none"
  /\ latency' = 0
  /\ pc' = IF reply = "err" THEN "failed" ELSE "sleep"
  /\ UNCHANGED <<redis_url, channel_env, redis_channel, redis_mgr, status, text,
                 lastFetch, payload, fetchCalls, publishCalls, cycles, cycleStart,
                 prevCycleStart, entered, stopSignalled, haltedAt>>

\* A publish error handled by falling back to the default channel.
LoopPublishReturnResetChannel ==
  /\ pc = "publish_wait"
  /\ reply \in {"ok", "err"}
  /\ now' = now + latency
  /\ workMs' = latency
  /\ lastPublish' = reply
  /\ sent' = IF reply = "ok"
             THEN Append(sent, [channel |-> redis_channel, message |-> payload])
             ELSE sent
  /\ redis_channel' = IF reply = "err" THEN DefaultChannel ELSE redis_channel
  /\ inFlight' = inFlight - 1
  /\ reply' = "none"
  /\ latency' = 0
  /\ pc' = "sleep"
  /\ UNCHANGED <<redis_url, channel_env, redis_mgr, status, text,
                 lastFetch, payload, fetchCalls, publishCalls, cycles, cycleStart,
                 prevCycleStart, entered, stopSignalled, haltedAt>>

\* conn.publish(...).await.unwrap_or(()): the call returned, Ok or Err alike.
LoopPublishReturn ==
  /\ pc = "publish_wait"
  /\ reply \in {"ok", "err"}
  /\ now' = now + latency
  /\ workMs' = latency
  /\ lastPublish' = reply
  /\ sent' = IF reply = "ok"
             THEN Append(sent, [channel |-> redis_channel, message |-> payload])
             ELSE sent
  /\ inFlight' = inFlight - 1
  /\ reply' = "none"
  /\ latency' = 0
  /\ pc' = "sleep"
  /\ UNCHANGED <<redis_url, channel_env, redis_channel, redis_mgr, status, text, lastFetch,
                 payload, fetchCalls, publishCalls, cycles, cycleStart,
                 prevCycleStart, entered, stopSignalled, haltedAt>>

\* A loop that gives up after a failed publish: `break` once the sleep is
\* over, and main returns Ok(()).
LoopSleepBreakOnError ==
  /\ pc = "sleep"
  /\ now' = now + SleepMs
  /\ pc' = IF lastPublish = "err" THEN "done" ELSE "loop_top"
  /\ UNCHANGED <<redis_url, channel_env, redis_channel, redis_mgr, reply,
                 latency, status, text, lastFetch, payload, fetchCalls,
                 publishCalls, inFlight, cycles, cycleStart, prevCycleStart,
                 workMs, lastPublish, sent, entered, stopSignalled, haltedAt>>

\* tokio::time::sleep(Duration::from_millis(800)).await, then the next iteration.
LoopSleep ==
  /\ pc = "sleep"
  /\ now' = now + SleepMs
  /\ pc' = "loop_top"
  /\ UNCHANGED <<redis_url, channel_env, redis_channel, redis_mgr, reply,
                 latency, status, text, lastFetch, payload, fetchCalls, publishCalls,
                 inFlight, cycles, cycleStart, prevCycleStart, workMs,
                 lastPublish, sent, entered, stopSignalled, haltedAt>>

Next ==
  \/ RedisWiring
  \/ FetchSend
  \/ FetchFailed
  \/ FetchAnswered
  \/ EnterLoop
  \/ ReturnOk
  \/ LoopPublish
  \/ LoopPublishReturn
  \/ LoopSleep

Spec == Init /\ [][Next]_vars

\* The runtime keeps running main whenever it can take a step; a call that
\* hangs leaves no step enabled.
FairSpec == Spec /\ WF_vars(Next)

\* main installs no signal handler: a termination signal ends the process
\* wherever main is.
StopSignal ==
  /\ pc \notin {"done", "failed", "killed"}
  /\ stopSignalled' = TRUE
  /\ haltedAt' = pc
  /\ pc' = "killed"
  /\ UNCHANGED <<redis_url, channel_env, redis_channel, redis_mgr, reply,
                 latency, status, text, lastFetch, payload, now, fetchCalls, publishCalls,
                 inFlight, cycles, cycleStart, prevCycleStart, workMs,
                 lastPublish, sent, entered>>

NextStop == Next \/ StopSignal

SpecStop == Init /\ [][NextStop]_vars

\* ------------------------------------------------------------------ claims
IsSuccess(st) == st >= 200 /\ st <= 299

\* C1: a transport failure of the fetch is contained: after a fetch has
\* failed the process has not terminated (main has returned neither Err nor Ok).
C1_FetchFailureContained ==
  lastFetch = "err" => pc \notin {"failed", "done"}

\* C2: after a fetch answered with a non-success HTTP status no publish call
\* is made (the program fetches once, so no later fetch can succeed).
C2_NoPublishAfterBadStatus ==
  (lastFetch = "ok" /\ ~IsSuccess(status)) => publishCalls = 0

\* C3: with REDIS_URL unset (and the fetch not failed) publish is never
\* called, main does not return an error, and the loop keeps running: main
\* does not return at all.
C3_LoopRunsWithoutPublisher ==
  (redis_url = "unset" /\ lastFetch # "err") =>
     /\ publishCalls = 0
     /\ pc \notin {"failed", "done"}

\* C4: a heartbeat built after a failed publish carries status "degraded".
C4_DegradedAfterFailedPublish ==
  (pc = "publish_wait" /\ lastPublish = "err") =>
     payload.engine.status = "degraded"

PublishAnswers == pc = "publish_wait" /\ reply \in {"ok", "err"}

\* C5: a failed publish neither ends nor blocks the loop: once the loop is
\* entered main never returns; a publish call that answers, with success or
\* failure, is followed by the idle wait; and the idle wait is followed by the
\* next iteration's publish call (while the model starts iterations).
C5_PublishFailureContained ==
  /\ [](entered => pc \notin {"done", "failed"})
  /\ (PublishAnswers ~> pc = "sleep")
  /\ \A n \in 1..(MaxCycles - 1) :
       (pc = "sleep" /\ cycles = n) ~> (pc = "publish_wait" /\ cycles = n + 1)

\* C5 witness: an iteration was started after a publish call had failed.
C5_Witness ==
  pc = "publish_wait" /\ lastPublish = "err" /\ cycles >= 2

\* C6: iterations never overlap: at most one publish call is in flight, none
\* while the loop sleeps or starts an iteration, and an iteration starts no
\* earlier than the start of the one before it plus the time its publish took.
C6_NoOverlap ==
  /\ inFlight <= 1
  /\ pc \in {"loop_top", "sleep"} => inFlight = 0
  /\ (pc = "publish_wait" /\ cycles >= 2) =>
        cycleStart >= prevCycleStart + workMs

\* C6 witness: an iteration started after a publish call that took longer
\* than the sleep interval, and its own call is the only one in flight.
C6_Witness ==
  pc = "publish_wait" /\ cycles >= 2 /\ workMs > SleepMs /\ inFlight = 1

\* C7: every publish call is preceded, in its iteration, by a call to the
\* data source: there are never more publish calls than fetch calls.
C7_FetchEveryCycle ==
  publishCalls <= fetchCalls

\* C8: a stop signal halts the running loop only at a tick boundary, with no
\* publish call in flight.
C8_GracefulStop ==
  (stopSignalled /\ entered) =>
     /\ haltedAt \in {"loop_top", "sleep"}
     /\ inFlight = 0

\* C9: the interval is between iteration starts: when the work of an
\* iteration took less than the interval, the next iteration starts exactly
\* one interval after it started.
C9_FixedCadenceBetweenStarts ==
  (pc = "publish_wait" /\ cycles >= 2 /\ workMs < SleepMs) =>
     cycleStart - prevCycleStart = SleepMs

\* C10: an upstream call that never answers is eventually abandoned.
C10_HungCallAbandoned ==
  (reply = "hang") ~> (reply # "hang")

\* C11: while the loop runs, a heartbeat is published in every cycle, so
\* heartbeats keep being published: from any number of publish calls made
\* the loop gets to the next one (while the model starts iterations).
C11_HeartbeatEveryCycle ==
  \A n \in 0..(MaxCycles - 1) :
     (entered /\ publishCalls = n) ~> (publishCalls = n + 1)

\* Messages handed to conn.publish so far: those delivered and the one of
\* the call in flight.
Published ==
  {sent[i].message : i \in DOMAIN sent} \cup
  (IF pc = "publish_wait" THEN {payload} ELSE {})

EngineState == IF lastPublish = "err" THEN "degraded" ELSE "running"

\* C13: every published message carries exactly ts, pnl, opportunities and
\* engine.status, with engine.status one of running, degraded, stopped, and
\* the status of the message being published is the state of the engine
\* when it was built.
C13_MessageShapeAndStatus ==
  /\ \A m \in Published :
       /\ DOMAIN m = {"ts", "pnl", "opportunities", "engine"}
       /\ DOMAIN m.engine = {"status"}
       /\ m.engine.status \in {"running", "degraded", "stopped"}
  /\ pc = "publish_wait" => payload.engine.status = EngineState

\* C14: a publish call is made only when the connection to Redis was
\* established at startup.  With REDIS_URL unset, invalid or unreachable the
\* loop is never entered, main returns an error only when the fetch failed,
\* has sent its one fetch request when it returns, and returns Ok once the
\* fetch was answered.
C14_PublishOnlyWhenConnected ==
  /\ [](publishCalls > 0 => redis_url = "ok")
  /\ [](redis_url # "ok" =>
          /\ ~entered
          /\ pc = "failed" => lastFetch = "err"
          /\ pc = "done" => fetchCalls = 1)
  /\ ((redis_url # "ok" /\ lastFetch = "ok") ~> pc = "done")

\* C14 witness: the Redis server was unreachable, the fetch was made and
\* main returned Ok without a publish call.
C14_Witness ==
  /\ redis_url = "refused"
  /\ pc = "done"
  /\ fetchCalls = 1
  /\ publishCalls = 0
  /\ ~entered

\* C15: once the loop is entered main stays in it: whatever the publish
\* calls returned, main is at the top of the loop, awaiting a publish or
\* sleeping, and never where it returns.
C15_LoopNeverExits ==
  entered => pc \in {"loop_top", "publish_wait", "sleep"}

\* C15 witness: the loop has gone through a failed and a successful publish
\* and is at the top of a further iteration.
C15_Witness ==
  /\ entered
  /\ pc = "loop_top"
  /\ cycles >= 2
  /\ Len(sent) >= 1
  /\ Len(sent) < publishCalls

\* C16: the channel is fixed by the startup wiring, REDIS_CHANNEL or
\* "arb:realtime" when it is unset, and no cycle changes it: from the wiring
\* on redis_channel is that name, and every delivered message went to it.
C16_ChannelFixed ==
  LET configured == IF channel_env = "unset" THEN "arb:realtime" ELSE channel_env
  IN  /\ pc # "start" => redis_channel = configured
      /\ \A i \in DOMAIN sent : sent[i].channel = configured

\* C16 witness: with REDIS_CHANNEL set, a message was delivered after an
\* earlier publish had failed.
C16_Witness ==
  /\ channel_env # "unset"
  /\ lastPublish = "ok"
  /\ Len(sent) >= 1
  /\ Len(sent) < publishCalls - inFlight

====
